---- MODULE Spec2Model ----
(***************************************************************************)
(* A model of gmapsdatalib.py: the grid builder (gridMaker), the nearby-   *)
(* search collectors (get_ids_from_grid, ids_to_file_from_grid), the       *)
(* identifier aggregator (get_unique_ids_from_files) and the persist-to-   *)
(* folder detail fetcher (data_from_ids_to_files).                         *)
(*                                                                         *)
(* One behaviour is one call of one function.  The remote service and the  *)
(* files the call reads are the environment: a call draws its arguments    *)
(* and the prior content of the files it names, and every request draws    *)
(* the response body the service answers with.                             *)
(*                                                                         *)
(* Strings that the code cuts or glues (file lines, place ids, str(i)) are *)
(* sequences of one-character strings; a status is an atom.  A JSON body   *)
(* is a function from the keys it holds to their values, so that body['k'] *)
(* fails exactly when k is not in its DOMAIN.                              *)
(***************************************************************************)
EXTENDS Integers, Sequences, FiniteSets, TLC

\* ---------------------------------------------------------------- bounds
MaxCoord == 1
MaxStep == 3
MaxGrid == 3
MaxResults == 2
MaxLines == 2
MaxFiles == 2
MaxIds == 3

\* ------------------------------------------------------- generic helpers
RECURSIVE SeqsUpTo(_, _)
SeqsUpTo(S, n) ==
    IF n = 0 THEN {<<>>}
    ELSE LET shorter == SeqsUpTo(S, n - 1)
         IN  shorter \cup {Append(s, x) : s \in {t \in shorter : Len(t) = n - 1}, x \in S}

Range(s) == {s[k] : k \in 1..Len(s)}

RECURSIVE Flatten(_)
Flatten(ss) == IF ss = <<>> THEN <<>> ELSE Head(ss) \o Flatten(Tail(ss))

\* every ordering of a finite set, as sequences without repetition
Orderings(S) ==
    {s \in [1..Cardinality(S) -> S] : \A x \in S : \E k \in 1..Cardinality(S) : s[k] = x}

\* ------------------------------------------------------------ exceptions
NoException == [type |-> "none", message |-> <<>>]
RequestError(message) == [type |-> "RequestError", message |-> message]
KeyError(key) == [type |-> "KeyError", message |-> <<key>>]
ZeroDivisionError == [type |-> "ZeroDivisionError", message |-> <<>>]
IndexError == [type |-> "IndexError", message |-> <<>>]

\* what a call has produced: nothing yet, a returned value, or None
NoReturn == [type |-> "no return", value |-> <<>>]
ReturnList(l) == [type |-> "list", value |-> l]
ReturnNone == [type |-> "NoneType", value |-> <<>>]

Outcome(e, r) == [exc |-> e, ret |-> r]

\* ======================================================== request_check
\* statuses the remote service reports besides "OK" and "ZERO_RESULTS"
ErrorStatuses == {"REQUEST_DENIED", "OVER_QUERY_LIMIT"}

\* "Google API returned the following status: " + status
StatusMessage(status) == <<"Google API returned the following status: ", status>>

\* request_check that lets every status but REQUEST_DENIED pass
request_check_OnlyDenied(response) ==
    IF "status" \notin DOMAIN response THEN KeyError("status")
    ELSE LET status == response["status"]
         IN  IF status = "REQUEST_DENIED"
             THEN RequestError(StatusMessage(status))
             ELSE NoException

\* request_check(response): the exception it raises, NoException when it
\* returns.  response.json()['status'] raises KeyError on a body without
\* the key.
request_check(response) ==
    IF "status" \notin DOMAIN response THEN KeyError("status")
    ELSE LET status == response["status"]
         IN  IF status # "OK" /\ status # "ZERO_RESULTS"
             THEN RequestError(StatusMessage(status))
             ELSE NoException

\* ============================================================= gridMaker
\* A latitude or longitude the code computes is a rational number, kept as
\* <<numerator, denominator>> in lowest terms with denominator > 0.
RECURSIVE GCD(_, _)
GCD(a, b) == IF b = 0 THEN a ELSE GCD(b, a % b)

Abs(n) == IF n < 0 THEN -n ELSE n

Rat(n, d) == LET g == GCD(Abs(n), d) IN <<n \div g, d \div g>>

Coords == 0..MaxCoord
Corners == Coords \X Coords
Steps == (-MaxStep)..MaxStep

ISqrt(n) == CHOOSE r \in 0..n : r * r <= n /\ n < (r + 1) * (r + 1)

\* geopy.distance.geodesic(p, q), in metres.  One coordinate unit is two
\* metres and the distance is rounded down to whole metres; what gridMaker
\* relies on is kept: the distance is 0 exactly for coincident points.
geodesic(p, q) ==
    ISqrt(4 * ((q[1] - p[1]) * (q[1] - p[1]) + (q[2] - p[2]) * (q[2] - p[2])))

\* int(a / b) for a >= 0 and b # 0: Python's int() truncates toward zero
IntOfQuotient(a, b) == IF b > 0 THEN a \div b ELSE -(a \div (-b))

\* the point appended at iteration (i, j) of the double loop
GridPoint(center, vx, vy, npx, npy, i, j) ==
    << Rat(center[1] * npx * npy + i * npy * vx[1] + j * npx * vy[1], npx * npy),
       Rat(center[2] * npx * npy + i * npy * vx[2] + j * npx * vy[2], npx * npy) >>

\* gridMaker(center_lat_lon, top_left_lat_lon, bottom_right_lat_lon, x_step,
\* y_step), steps in metres.  vx_norm / x_step (both in kilometres in the
\* code, both in metres here) raises ZeroDivisionError for a zero step; i/npx
\* and j/npy raise it in the first iteration when npx or npy is 0; an empty
\* range(npx+1) or range(npy+1) leaves the grid empty.
gridMaker(center, top_left, bottom_right, xstep, ystep) ==
    LET vector_x == <<bottom_right[1] - center[1], bottom_right[2] - center[2]>>
        vector_y == <<top_left[1] - center[1], top_left[2] - center[2]>>
        vx_norm == geodesic(center, bottom_right)
        vy_norm == geodesic(center, top_left)
    IN  IF xstep = 0 \/ ystep = 0 THEN Outcome(ZeroDivisionError, NoReturn)
        ELSE LET npx == IntOfQuotient(vx_norm, xstep)
                 npy == IntOfQuotient(vy_norm, ystep)
             IN  IF npx + 1 <= 0 \/ npy + 1 <= 0
                 THEN Outcome(NoException, ReturnList(<<>>))
                 ELSE IF npx = 0 \/ npy = 0
                 THEN Outcome(ZeroDivisionError, NoReturn)
                 ELSE Outcome(NoException, ReturnList(
                        [k \in 1..((npx + 1) * (npy + 1)) |->
                            GridPoint(center, vector_x, vector_y, npx, npy,
                                      (k - 1) \div (npy + 1), (k - 1) % (npy + 1))]))

\* ================================================= the remote service
PlaceIds == {<<"a">>, <<"b">>}

\* bodies the nearby-search endpoint may answer with: a list of places (a
\* place is modelled by its place_id), possibly with repetitions; a success
\* status without 'results'; an error status; a body without 'status'
NearbyResponses ==
    {[status |-> "OK", results |-> r] : r \in SeqsUpTo(PlaceIds, MaxResults)}
    \cup {[status |-> "ZERO_RESULTS", results |-> <<>>]}
    \cup {[status |-> s] : s \in ErrorStatuses \cup {"OK"}}
    \cup {[error_message |-> "malformed"]}

PlaceRecords == {[name |-> "Cafe"], [name |-> "Bar"]}

\* bodies the place-details endpoint may answer with
DetailResponses ==
    {[status |-> "OK", result |-> r] : r \in PlaceRecords}
    \cup {[status |-> s] : s \in ErrorStatuses \cup {"OK", "ZERO_RESULTS"}}
    \cup {[error_message |-> "malformed"]}

\* ======================================================== the file system
FileNames == {"ids_1.txt", "ids_2.txt"}

Digit(n) == <<"0", "1", "2", "3", "4", "5", "6", "7", "8", "9">>[n + 1]

\* str(n) for n >= 0: the decimal digits
RECURSIVE Str(_)
Str(n) == IF n < 10 THEN <<Digit(n)>> ELSE Str(n \div 10) \o <<Digit(n % 10)>>

\* str(i)+" "+place["place_id"]+"\n"
IdLine(index, place_id) == Str(index) \o <<" ">> \o place_id \o <<"\n">>

Whitespace == {" ", "\n", "\t"}

\* line.split(): the maximal runs of non-whitespace characters, in order
RECURSIVE SplitFrom(_, _, _)
SplitFrom(line, k, token) ==
    IF k > Len(line) THEN (IF token = <<>> THEN <<>> ELSE <<token>>)
    ELSE IF line[k] \in Whitespace
         THEN (IF token = <<>> THEN <<>> ELSE <<token>>) \o SplitFrom(line, k + 1, <<>>)
         ELSE SplitFrom(line, k + 1, Append(token, line[k]))

split(line) == SplitFrom(line, 1, <<>>)

\* lines an id file may hold when a call starts: lines ids_to_file_from_grid
\* writes, a line with runs of blanks, a two-character id and no final
\* newline, an empty line, a line with one token
SampleLines ==
    { IdLine(0, <<"a">>), IdLine(1, <<"a">>),
      <<"2", " ", "\t", "a", "b">>,
      <<"\n">>, <<"0", "\n">> }

FileContents == SeqsUpTo(SampleLines, MaxLines)

PklName(id) == id \o <<".", "p", "k", "l">>

\* CollectIds that takes the first token of a line (split_line[0])
RECURSIVE CollectIds_FirstToken(_)
CollectIds_FirstToken(lines) ==
    IF lines = <<>> THEN [exc |-> NoException, ids |-> <<>>]
    ELSE LET split_line == split(Head(lines))
         IN  IF Len(split_line) < 2 THEN [exc |-> IndexError, ids |-> <<>>]
             ELSE LET rest == CollectIds_FirstToken(Tail(lines))
                  IN  [exc |-> rest.exc,
                       ids |-> IF rest.exc = NoException
                               THEN <<split_line[1]>> \o rest.ids ELSE <<>>]

\* the ids list of get_unique_ids_from_files after reading the given lines:
\* split_line[1] raises IndexError on a line with fewer than two tokens
RECURSIVE CollectIds(_)
CollectIds(lines) ==
    IF lines = <<>> THEN [exc |-> NoException, ids |-> <<>>]
    ELSE LET split_line == split(Head(lines))
         IN  IF Len(split_line) < 2 THEN [exc |-> IndexError, ids |-> <<>>]
             ELSE LET rest == CollectIds(Tail(lines))
                  IN  [exc |-> rest.exc,
                       ids |-> IF rest.exc = NoException
                               THEN <<split_line[2]>> \o rest.ids ELSE <<>>]

\* file.readlines() of every file of the list, in the order of the list
ReadLines(files, contents) == Flatten([k \in 1..Len(files) |-> contents[files[k]]])

\* ================================================================== state
VARIABLES
    op,            \* the function called, "none" before the call
    pc,            \* "idle", "truncate", "running", "returned" or "raised"
    args,          \* the arguments of the call
    i,             \* how many elements of the grid or of ids the loop is past
    responses,     \* the bodies the service has answered with, in order
    list_of_id,    \* get_ids_from_grid
    error_points,  \* ids_to_file_from_grid
    error_ids,     \* data_from_ids_to_files
    disk,          \* id files: file name -> lines
    folder,        \* record files: file name -> pickled record
    written,       \* the record files opened for writing, in order
    exc,           \* the exception the call ended with
    ret            \* the value the call returned

vars == <<op, pc, args, i, responses, list_of_id, error_points, error_ids,
          disk, folder, written, exc, ret>>

\* the grids handed to the collectors: up to MaxGrid distinct points
Grids == {[k \in 1..n |-> <<0, k - 1>>] : n \in 0..MaxGrid}

Init ==
    /\ op = "none"
    /\ pc = "idle"
    /\ args = [none |-> TRUE]
    /\ i = 0
    /\ responses = <<>>
    /\ list_of_id = <<>>
    /\ error_points = <<>>
    /\ error_ids = <<>>
    /\ disk = [f \in FileNames |-> <<>>]
    /\ folder = [n \in {} |-> [name |-> "stale"]]
    /\ written = <<>>
    /\ exc = NoException
    /\ ret = NoReturn

Raise(e) == pc' = "raised" /\ exc' = e /\ ret' = NoReturn
Return(r) == pc' = "returned" /\ exc' = NoException /\ ret' = r

\* ------------------------------------------------------------- gridMaker
CallGridMaker ==
    /\ pc = "idle"
    /\ \E center \in Corners, top_left \in Corners, bottom_right \in Corners,
          x_step \in Steps, y_step \in Steps :
          /\ op' = "gridMaker"
          /\ args' = [center_lat_lon |-> center, top_left_lat_lon |-> top_left,
                      bottom_right_lat_lon |-> bottom_right,
                      x_step |-> x_step, y_step |-> y_step]
          /\ LET out == gridMaker(center, top_left, bottom_right, x_step, y_step)
             IN  IF out.exc = NoException THEN Return(out.ret) ELSE Raise(out.exc)
    /\ UNCHANGED <<i, responses, list_of_id, error_points, error_ids, disk, folder, written>>

\* ----------------------------------------------------- get_ids_from_grid
CallGetIdsFromGrid ==
    /\ pc = "idle"
    /\ \E grid \in Grids :
          /\ op' = "get_ids_from_grid"
          /\ args' = [grid |-> grid]
    /\ pc' = "running"
    /\ list_of_id' = <<>>
    /\ UNCHANGED <<i, responses, error_points, error_ids, disk, folder, written, exc, ret>>

\* one iteration of the loop over the grid: request, request_check, collect
GetIdsFromGridStep ==
    /\ op = "get_ids_from_grid" /\ pc = "running"
    /\ i < Len(args.grid)
    /\ \E response \in NearbyResponses :
          /\ responses' = Append(responses, response)
          /\ LET e == request_check(response)
             IN  IF e # NoException
                 THEN Raise(e) /\ UNCHANGED <<i, list_of_id>>
                 ELSE IF "results" \notin DOMAIN response
                 THEN Raise(KeyError("results")) /\ UNCHANGED <<i, list_of_id>>
                 ELSE /\ list_of_id' = list_of_id \o response["results"]
                      /\ i' = i + 1
                      /\ UNCHANGED <<pc, exc, ret>>
    /\ UNCHANGED <<op, args, error_points, error_ids, disk, folder, written>>

\* a return of list_of_id as collected, without set()
GetIdsFromGridReturn_NoSet ==
    /\ op = "get_ids_from_grid" /\ pc = "running"
    /\ i = Len(args.grid)
    /\ Return(ReturnList(list_of_id))
    /\ UNCHANGED <<op, args, i, responses, list_of_id, error_points, error_ids,
                   disk, folder, written>>

\* return list(set(list_of_id)): the distinct ids, in an order Python chooses
GetIdsFromGridReturn ==
    /\ op = "get_ids_from_grid" /\ pc = "running"
    /\ i = Len(args.grid)
    /\ \E order \in Orderings(Range(list_of_id)) : Return(ReturnList(order))
    /\ UNCHANGED <<op, args, i, responses, list_of_id, error_points, error_ids,
                   disk, folder, written>>

\* ------------------------------------------------- ids_to_file_from_grid
\* the file may hold lines of an earlier run
PriorIdFiles == {<<>>, <<IdLine(7, <<"b">>)>>}

CallIdsToFileFromGrid ==
    /\ pc = "idle"
    /\ \E grid \in Grids, file_name \in FileNames, prior \in PriorIdFiles :
          /\ op' = "ids_to_file_from_grid"
          /\ args' = [grid |-> grid, file_name |-> file_name]
          /\ disk' = [disk EXCEPT ![file_name] = prior]
    /\ pc' = "truncate"
    /\ UNCHANGED <<i, responses, list_of_id, error_points, error_ids, folder, written,
                   exc, ret>>

\* open(file_name, 'w'); file.truncate(); error_points = []
IdsToFileTruncate ==
    /\ op = "ids_to_file_from_grid" /\ pc = "truncate"
    /\ disk' = [disk EXCEPT ![args.file_name] = <<>>]
    /\ error_points' = <<>>
    /\ pc' = "running"
    /\ UNCHANGED <<op, args, i, responses, list_of_id, error_ids, folder, written, exc, ret>>

\* the loop iteration with the return statement after the loop: a point
\* whose lines are written is followed by the next point
IdsToFileStep_NoEarlyReturn ==
    /\ op = "ids_to_file_from_grid" /\ pc = "running"
    /\ i < Len(args.grid)
    /\ \E response \in NearbyResponses :
          /\ responses' = Append(responses, response)
          /\ LET point == args.grid[i + 1]
             IN  IF request_check(response) # NoException
                 THEN /\ error_points' = Append(error_points, <<point[1], point[2]>>)
                      /\ i' = i + 1
                      /\ UNCHANGED <<pc, exc, ret, disk>>
                 ELSE IF "results" \notin DOMAIN response
                 THEN Raise(KeyError("results")) /\ UNCHANGED <<i, error_points, disk>>
                 ELSE /\ disk' = [disk EXCEPT ![args.file_name] =
                                    @ \o [k \in 1..Len(response["results"]) |->
                                            IdLine(i, response["results"][k])]]
                      /\ i' = i + 1
                      /\ UNCHANGED <<pc, exc, ret, error_points>>
    /\ UNCHANGED <<op, args, list_of_id, error_ids, folder, written>>

\* one iteration of the loop: the bare except takes every exception of
\* request_check; after the lines of a point are written the function
\* returns (the return statement is in the loop body)
IdsToFileStep ==
    /\ op = "ids_to_file_from_grid" /\ pc = "running"
    /\ i < Len(args.grid)
    /\ \E response \in NearbyResponses :
          /\ responses' = Append(responses, response)
          /\ LET point == args.grid[i + 1]
             IN  IF request_check(response) # NoException
                 THEN /\ error_points' = Append(error_points, <<point[1], point[2]>>)
                      /\ i' = i + 1
                      /\ UNCHANGED <<pc, exc, ret, disk>>
                 ELSE IF "results" \notin DOMAIN response
                 THEN Raise(KeyError("results")) /\ UNCHANGED <<i, error_points, disk>>
                 ELSE /\ disk' = [disk EXCEPT ![args.file_name] =
                                    @ \o [k \in 1..Len(response["results"]) |->
                                            IdLine(i, response["results"][k])]]
                      /\ Return(ReturnList(error_points))
                      /\ UNCHANGED <<i, error_points>>
    /\ UNCHANGED <<op, args, list_of_id, error_ids, folder, written>>

\* the loop ends without a successful point: the function body ends
\* without a return statement
IdsToFileFallOff ==
    /\ op = "ids_to_file_from_grid" /\ pc = "running"
    /\ i = Len(args.grid)
    /\ Return(ReturnNone)
    /\ UNCHANGED <<op, args, i, responses, list_of_id, error_points, error_ids,
                   disk, folder, written>>

\* --------------------------------------------- get_unique_ids_from_files
\* return list(set(ids)) once every line of every file is read; files not
\* named by the call are left out of the picture (empty)
CallGetUniqueIdsFromFiles ==
    /\ pc = "idle"
    /\ \E files \in SeqsUpTo(FileNames, MaxFiles), contents \in [FileNames -> FileContents] :
          /\ \A f \in FileNames \ Range(files) : contents[f] = <<>>
          /\ op' = "get_unique_ids_from_files"
          /\ args' = [files |-> files]
          /\ disk' = contents
          /\ LET out == CollectIds(ReadLines(files, contents))
             IN  IF out.exc # NoException THEN Raise(out.exc)
                 ELSE \E order \in Orderings(Range(out.ids)) : Return(ReturnList(order))
    /\ UNCHANGED <<i, responses, list_of_id, error_points, error_ids, folder, written>>

\* ------------------------------------------------ data_from_ids_to_files
\* the folder may hold record files of an earlier run
CallDataFromIdsToFiles ==
    /\ pc = "idle"
    /\ \E ids \in SeqsUpTo(PlaceIds, MaxIds), old \in SUBSET PlaceIds :
          /\ op' = "data_from_ids_to_files"
          /\ args' = [ids |-> ids]
          /\ folder' = [n \in {PklName(id) : id \in old} |-> [name |-> "stale"]]
    /\ pc' = "running"
    /\ error_ids' = <<>>
    /\ UNCHANGED <<i, responses, list_of_id, error_points, disk, written, exc, ret>>

\* the loop iteration with the defect of ids_to_file_from_grid: a return
\* in the loop body, after the first record is written
DataFromIdsToFilesStep_EarlyReturn ==
    /\ op = "data_from_ids_to_files" /\ pc = "running"
    /\ i < Len(args.ids)
    /\ \E response \in DetailResponses :
          /\ responses' = Append(responses, response)
          /\ LET id == args.ids[i + 1]
             IN  IF request_check(response) # NoException
                 THEN /\ error_ids' = Append(error_ids, id)
                      /\ i' = i + 1
                      /\ UNCHANGED <<pc, exc, ret, folder, written>>
                 ELSE IF "result" \notin DOMAIN response
                 THEN Raise(KeyError("result")) /\ UNCHANGED <<i, error_ids, folder, written>>
                 ELSE /\ folder' = [n \in DOMAIN folder \cup {PklName(id)} |->
                                      IF n = PklName(id) THEN response["result"] ELSE folder[n]]
                      /\ written' = Append(written, PklName(id))
                      /\ i' = i + 1
                      /\ Return(ReturnList(error_ids))
                      /\ UNCHANGED error_ids
    /\ UNCHANGED <<op, args, list_of_id, error_points, disk>>

\* one iteration of the loop over ids: the bare except takes every
\* exception of request_check; otherwise the record is pickled to
\* folder/<id>.pkl
DataFromIdsToFilesStep ==
    /\ op = "data_from_ids_to_files" /\ pc = "running"
    /\ i < Len(args.ids)
    /\ \E response \in DetailResponses :
          /\ responses' = Append(responses, response)
          /\ LET id == args.ids[i + 1]
             IN  IF request_check(response) # NoException
                 THEN /\ error_ids' = Append(error_ids, id)
                      /\ i' = i + 1
                      /\ UNCHANGED <<pc, exc, ret, folder, written>>
                 ELSE IF "result" \notin DOMAIN response
                 THEN Raise(KeyError("result")) /\ UNCHANGED <<i, error_ids, folder, written>>
                 ELSE /\ folder' = [n \in DOMAIN folder \cup {PklName(id)} |->
                                      IF n = PklName(id) THEN response["result"] ELSE folder[n]]
                      /\ written' = Append(written, PklName(id))
                      /\ i' = i + 1
                      /\ UNCHANGED <<pc, exc, ret, error_ids>>
    /\ UNCHANGED <<op, args, list_of_id, error_points, disk>>

DataFromIdsToFilesReturn ==
    /\ op = "data_from_ids_to_files" /\ pc = "running"
    /\ i = Len(args.ids)
    /\ Return(ReturnList(error_ids))
    /\ UNCHANGED <<op, args, i, responses, list_of_id, error_points, error_ids,
                   disk, folder, written>>

\* ---------------------------------------------------------- specification
Next ==
    \/ CallGridMaker
    \/ CallGetIdsFromGrid
    \/ GetIdsFromGridStep
    \/ GetIdsFromGridReturn
    \/ CallIdsToFileFromGrid
    \/ IdsToFileTruncate
    \/ IdsToFileStep
    \/ IdsToFileFallOff
    \/ CallGetUniqueIdsFromFiles
    \/ CallDataFromIdsToFiles
    \/ DataFromIdsToFilesStep
    \/ DataFromIdsToFilesReturn

Spec == Init /\ [][Next]_vars

\* ================================================================= claims
\* What the claims call the outcome of a request: it succeeds when the body
\* reports status OK or ZERO_RESULTS, it fails otherwise; a RequestError
\* stands for a reported status that is neither.
Succeeded(response) ==
    "status" \in DOMAIN response /\ response["status"] \in {"OK", "ZERO_RESULTS"}

ReportsError(response) ==
    "status" \in DOMAIN response /\ response["status"] \notin {"OK", "ZERO_RESULTS"}

Called(f) == op = f /\ pc \in {"returned", "raised"}

NoRepeats(s) == \A j, k \in 1..Len(s) : s[j] = s[k] => j = k

\* the elements of items at the positions among the first n where Keep says so
RECURSIVE Pick(_, _, _)
Pick(items, keep, n) ==
    IF n = 0 THEN <<>>
    ELSE IF keep[n] THEN Append(Pick(items, keep, n - 1), items[n])
         ELSE Pick(items, keep, n - 1)

\* ------------------------------------------------------------------- C1
ValidGridSpec ==
    /\ args.x_step > 0 /\ args.y_step > 0
    /\ args.center_lat_lon # args.top_left_lat_lon
    /\ args.center_lat_lon # args.bottom_right_lat_lon
    /\ args.top_left_lat_lon # args.bottom_right_lat_lon

\* C1: for every grid spec with positive steps and non-coincident corners,
\* gridMaker returns a list of (floor(|C->B|/x_step)+1) * (floor(|C->T|/y_step)+1)
\* points whose first point is C, also when either floor is 0.
C1_GridSize ==
    (Called("gridMaker") /\ ValidGridSpec) =>
        /\ pc = "returned"
        /\ ret.type = "list"
        /\ Len(ret.value) =
              ((geodesic(args.center_lat_lon, args.bottom_right_lat_lon) \div args.x_step) + 1)
            * ((geodesic(args.center_lat_lon, args.top_left_lat_lon) \div args.y_step) + 1)
        /\ ret.value[1] = << <<args.center_lat_lon[1], 1>>, <<args.center_lat_lon[2], 1>> >>

\* ------------------------------------------------------------------- C2
\* C2: gridMaker called with a step <= 0 or with coincident corners fails
\* with InvalidGridSpec; it returns no grid and raises no division by zero.
C2_InvalidGridSpec ==
    (/\ Called("gridMaker")
     /\ \/ args.x_step <= 0
        \/ args.y_step <= 0
        \/ args.center_lat_lon = args.top_left_lat_lon
        \/ args.center_lat_lon = args.bottom_right_lat_lon) =>
        (pc = "raised" /\ exc.type = "InvalidGridSpec")

\* ------------------------------------------------------------------- C3
\* C3: ids_to_file_from_grid returns a list holding exactly the grid points
\* whose request failed, for every grid and every pattern of failures.
C3_AllFailedPoints ==
    (op = "ids_to_file_from_grid" /\ pc = "returned") =>
        /\ ret.type = "list"
        /\ Len(responses) = Len(args.grid)
        /\ ret.value = Pick(args.grid,
                            [k \in 1..Len(responses) |-> ~Succeeded(responses[k])],
                            Len(responses))

\* ------------------------------------------------------------------- C4
\* C4: in the fault-tolerant paths a body without the status field is not
\* turned into an error-list entry: the KeyError propagates to the caller.
C4_OnlyRequestErrorCaught ==
    (op \in {"ids_to_file_from_grid", "data_from_ids_to_files"}) =>
        \A k \in 1..Len(responses) :
            "status" \notin DOMAIN responses[k] =>
                /\ pc = "raised"
                /\ exc = KeyError("status")
                /\ Len(error_points) + Len(error_ids) = k - 1

\* ------------------------------------------------------------------- C5
\* C5: in get_ids_from_grid the first response with a status other than OK
\* or ZERO_RESULTS ends the call with a RequestError carrying that status:
\* no request follows it and nothing is returned.
C5_FailFast ==
    op = "get_ids_from_grid" =>
        \A k \in 1..Len(responses) :
            ReportsError(responses[k]) =>
                /\ k = Len(responses)
                /\ pc = "raised"
                /\ exc.type = "RequestError"
                /\ exc.message[2] = responses[k]["status"]
                /\ ret = NoReturn

\* a RequestError after ids were collected and with grid points left
C5_Witness ==
    /\ op = "get_ids_from_grid" /\ pc = "raised" /\ exc.type = "RequestError"
    /\ exc.message[2] = "OVER_QUERY_LIMIT"
    /\ list_of_id # <<>>
    /\ Len(responses) < Len(args.grid)

\* ------------------------------------------------------------------- C6
DetailWritten(response) == Succeeded(response) /\ "result" \in DOMAIN response

\* C6: data_from_ids_to_files requests every id whatever the outcome of the
\* earlier ones; a record file is written for exactly the requests that
\* succeeded, none for a failed one, and the returned list holds the failed
\* ids in input order.  (A success body without 'result' is no outcome of
\* the claim: there, and only there, the run ends early, with KeyError.)
C6_PersistAll ==
    op = "data_from_ids_to_files" =>
        LET n == Len(responses)
            failed == Pick(args.ids, [k \in 1..n |-> ~Succeeded(responses[k])], n)
            saved == Pick(args.ids, [k \in 1..n |-> DetailWritten(responses[k])], n)
        IN  /\ error_ids = failed
            /\ written = [k \in 1..Len(saved) |-> PklName(saved[k])]
            /\ \A name \in DOMAIN folder \ Range(written) : folder[name] = [name |-> "stale"]
            /\ \A k \in 1..n :
                  (/\ DetailWritten(responses[k])
                   /\ \A j \in (k + 1)..n : DetailWritten(responses[j]) => args.ids[j] # args.ids[k])
                  => (/\ PklName(args.ids[k]) \in DOMAIN folder
                      /\ folder[PklName(args.ids[k])] = responses[k]["result"])
            /\ pc = "returned" => (n = Len(args.ids) /\ ret = ReturnList(failed))
            /\ pc = "running" => n = i
            /\ pc = "raised" =>
                  (/\ exc = KeyError("result")
                   /\ Succeeded(responses[n]) /\ ~DetailWritten(responses[n]))

\* ids [x, y, ...]: x failed, y succeeded later, the call returned [x, ...]
C6_Witness ==
    /\ op = "data_from_ids_to_files" /\ pc = "returned"
    /\ Len(args.ids) >= 2
    /\ args.ids[1] # args.ids[2]
    /\ ~Succeeded(responses[1]) /\ DetailWritten(responses[2])
    /\ ret.value[1] = args.ids[1]
    /\ written = <<PklName(args.ids[2])>>
    /\ DOMAIN folder = {PklName(args.ids[2])}

\* ------------------------------------------------------------------- C7
\* the place ids that appear in the responses of the run
IdsInResponses ==
    UNION {Range(responses[k]["results"]) :
             k \in {j \in 1..Len(responses) : "results" \in DOMAIN responses[j]}}

\* C7: when every point's response is a success, get_ids_from_grid returns
\* each place_id of any response exactly once and nothing else.  (The call
\* returns unless a body lacks an expected field.)
C7_DistinctIds ==
    op = "get_ids_from_grid" =>
        /\ pc = "returned" =>
              /\ Len(responses) = Len(args.grid)
              /\ \A k \in 1..Len(responses) : Succeeded(responses[k])
              /\ ret.type = "list"
              /\ NoRepeats(ret.value)
              /\ Range(ret.value) = IdsInResponses
              /\ Len(ret.value) = Cardinality(IdsInResponses)
        /\ (/\ Len(responses) = Len(args.grid)
            /\ \A k \in 1..Len(responses) :
                  Succeeded(responses[k]) /\ "results" \in DOMAIN responses[k])
           => pc # "raised"

\* two points answer with overlapping id lists, one of them with a repeat
C7_Witness ==
    /\ op = "get_ids_from_grid" /\ pc = "returned"
    /\ Len(responses) >= 2
    /\ responses[1]["results"] = << <<"a">>, <<"a">> >>
    /\ responses[2]["results"] = << <<"b">>, <<"a">> >>
    /\ Len(list_of_id) > Len(ret.value)
    /\ Len(ret.value) = 2

\* ------------------------------------------------------------------- C8
LinesRead == ReadLines(args.files, disk)

\* C8: get_unique_ids_from_files fails with a ParseError naming file and
\* line when a line has no second token.
C8_ParseError ==
    (/\ Called("get_unique_ids_from_files")
     /\ \E k \in 1..Len(LinesRead) : Len(split(LinesRead[k])) < 2) =>
        (pc = "raised" /\ exc.type = "ParseError")

\* ------------------------------------------------------------------- C9
\* the second token of every line of every file the call names
SecondTokens ==
    {split(line)[2] : line \in UNION {Range(disk[f]) : f \in Range(args.files)}}

\* the files list in another order
Reordered(files, perm) == [k \in 1..Len(files) |-> files[perm[k]]]

\* C9: given files whose every line is '<index> <place_id>',
\* get_unique_ids_from_files returns exactly the set of second tokens, each
\* once, whatever the order of the files.
C9_UniqueIds ==
    (/\ Called("get_unique_ids_from_files")
     /\ \A k \in 1..Len(LinesRead) : Len(split(LinesRead[k])) = 2) =>
        /\ pc = "returned"
        /\ ret.type = "list"
        /\ NoRepeats(ret.value)
        /\ Range(ret.value) = SecondTokens
        /\ \A perm \in Orderings(1..Len(args.files)) :
              LET other == CollectIds(ReadLines(Reordered(args.files, perm), disk))
              IN  other.exc = NoException /\ Range(other.ids) = Range(ret.value)

\* one file holds "0 a", the other "1 a" and the line of another id
C9_Witness ==
    /\ op = "get_unique_ids_from_files" /\ pc = "returned"
    /\ args.files = <<"ids_1.txt", "ids_2.txt">>
    /\ disk["ids_1.txt"] = <<IdLine(0, <<"a">>)>>
    /\ disk["ids_2.txt"] = <<IdLine(1, <<"a">>), <<"2", " ", "\t", "a", "b">>>>
    /\ Range(ret.value) = {<<"a">>, <<"a", "b">>}
    /\ Len(ret.value) = 2

====
